---- MODULE Spec2Model ----
(***************************************************************************)
(* State-machine model of src/index.mjs (createProgress): the renderer,    *)
(* the animated handle returned by start, the snap animation, and the two  *)
(* command runners runEstimated and runTracked with their close handlers.  *)
(*                                                                         *)
(* Ratios are JavaScript numbers in the source; here they are exact        *)
(* rationals [n, d] in lowest terms (NaN is outside the model).  Every     *)
(* timer callback, stream event and public call is one action; which one   *)
(* runs next is left open, as the event loop leaves it open.               *)
(***************************************************************************)
EXTENDS Integers, Sequences, FiniteSets, TLC

\* ---------------------------------------------------------------- bounds
MaxPaints == 10      \* cap on frameIdx: paint calls per engine instance
MaxTicks == 1        \* cap on the render ticks during a command run
MaxStderr == 1       \* cap on the characters of stderr text accumulated
MaxCompleted == 2    \* cap on the step counter of a tracked run
MaxSamples == 2      \* cap on the easing samples of an estimated run
MaxSteps == 10       \* cap on the step counter of a run that counts to its total

\* ------------------------------------------------------ program constants
totalFrames == 8
DefaultBarWidth == 24
DefaultRenderInterval == 80
SampleIntervalMs == 200

\* ------------------------------------------------------------- rationals
\* the arguments are bound to their values before the recursion
RECURSIVE GCD(_, _)
GCD(a, b) ==
  CHOOSE g \in {IF y = 0 THEN x ELSE GCD(y, x % y) : x \in {a}, y \in {b}} : TRUE

Abs(x) == IF x < 0 THEN -x ELSE x

\* n/d in lowest terms, d > 0
Rat(n, d) ==
  LET g == GCD(Abs(n), d)
  IN  [n |-> n \div g, d |-> d \div g]

Zero == Rat(0, 1)
One == Rat(1, 1)

RatLess(a, b) == a.n * b.d < b.n * a.d

\* Math.round(k * p): the nearest integer, halves towards +Infinity
RoundTimes(k, p) == (2 * k * p.n + p.d) \div (2 * p.d)

\* --------------------------------------------------------------- inputs
\* createProgress(): the defaults of lines 45-51
DefaultConfig ==
  [ barWidth |-> DefaultBarWidth,
    spinnerFrames |-> <<"f0", "f1", "f2", "f3", "f4", "f5", "f6", "f7", "f8", "f9">>,
    renderInterval |-> DefaultRenderInterval,
    estimateBuffer |-> Rat(15, 100) ]

\* createProgress(options): the defaults and one custom engine
Configs ==
  { DefaultConfig,
    [ barWidth |-> 5,
      spinnerFrames |-> <<"|", "/", "-">>,
      renderInterval |-> 50,
      estimateBuffer |-> Zero ] }

Labels == {"build"}
\* ratios a caller or a callback may hand to setPct / paint / start
RatioInputs == {Rat(-1, 2), Rat(1, 2), Rat(3, 2)}

Blank == [kind |-> "blank"]
NoLabel == "<undefined>"

VARIABLES
  cfg,        \* engine id -> options of that createProgress call
  frameIdx,   \* engine id -> let frameIdx (line 54)
  term,       \* the terminal: cur = the unfinished current line of stdout,
              \* printed = the last line completed with "\n", errBlock = the last
              \* console.error block
  handle,     \* slot -> the closure of one start call: label, pct, id (the timer)
  run,        \* slot -> the closure of one runEstimated / runTracked call
  snap,       \* slot -> the closure of one snapTo100 call
  calls,      \* slot -> the callbacks the last stream handler invoked, in order
  log         \* slot -> what the close handling of the run did so far, in order

vars == <<cfg, frameIdx, term, handle, run, snap, calls, log>>

Engines == DOMAIN cfg
Handles == DOMAIN handle

\* ------------------------------------------------------------- rendering
\* Math.max(0, Math.min(1, pct))                                    (line 60)
Clamped(pct) ==
  IF RatLess(pct, Zero) THEN Zero ELSE IF RatLess(One, pct) THEN One ELSE pct

\* renderBar(pct): the numbers of filled and of empty glyphs     (lines 59-66)
MutRenderBarNoClamp(e, pct) ==
  LET filled == RoundTimes(cfg[e].barWidth, pct)
  IN  [filled |-> filled, empty |-> cfg[e].barWidth - filled]
renderBar(e, pct) ==
  LET clamped == Clamped(pct)
      filled == RoundTimes(cfg[e].barWidth, clamped)
  IN  [filled |-> filled, empty |-> cfg[e].barWidth - filled]

\* the frame paint(label, pct) writes when frameIdx is idx        (lines 68-74)
Frame(e, idx, label, pct) ==
  [ kind |-> "frame",
    e |-> e,
    spinner |-> cfg[e].spinnerFrames[(idx % Len(cfg[e].spinnerFrames)) + 1],
    label |-> label,
    bar |-> renderBar(e, pct),
    pctStr |-> RoundTimes(100, pct),
    pct |-> pct ]

\* paint(label, pct) on terminal t with frame index idx: "\r\x1b[2K" + frame
\* replaces the current line, and frameIdx++.  The result is the new terminal
\* and the new frame index.
MutPaintNoAdvance(t, idx, e, label, pct) ==
  [ term |-> [t EXCEPT !.cur = Frame(e, idx, label, pct)], frameIdx |-> idx ]
paint(t, idx, e, label, pct) ==
  [ term |-> [t EXCEPT !.cur = Frame(e, idx, label, pct)], frameIdx |-> idx + 1 ]

\* the guard that caps the unbounded counter frameIdx
CanPaint(e) == frameIdx[e] < MaxPaints

\* ---------------------------------------------------- static final states
Line(glyph, label, kept) == [glyph |-> glyph, label |-> label, after |-> kept]

\* succeed / fail: "\r\x1b[2K" erases the current line, then glyph, label, "\n"
succeed(t, label) == [t EXCEPT !.cur = Blank, !.printed = Line("ok", label, Blank)]
fail(t, label) == [t EXCEPT !.cur = Blank, !.printed = Line("x", label, Blank)]
\* info / warn: no erase; glyph and label go after whatever the line holds
info(t, label) == [t EXCEPT !.cur = Blank, !.printed = Line("o", label, t.cur)]
warn(t, label) == [t EXCEPT !.cur = Blank, !.printed = Line("!", label, t.cur)]

\* ----------------------------------------------------------------- slots
NoHandle ==
  [live |-> FALSE, e |-> 1, label |-> NoLabel, pct |-> Zero, id |-> FALSE, every |-> 0]

\* no exit code: the promise was not rejected
NoCode == 0 - 1

NoRun ==
  [ kind |-> "none", pc |-> "idle", total |-> 0, parseProgress |-> FALSE,
    onOutput |-> FALSE, tolerateFailure |-> FALSE, doneLabel |-> NoLabel,
    estimatedMs |-> 0, elapsed |-> 0, pctInterval |-> FALSE, completed |-> 0,
    stderr |-> <<>>, code |-> 0, promise |-> "none", error |-> NoCode ]

NoSnap ==
  [ interval |-> FALSE, e |-> 1, frame |-> 0, currentPct |-> Zero,
    label |-> NoLabel, finalLabel |-> NoLabel, promise |-> "none" ]

\* a microtask (the continuation of a close handler after its await) is queued:
\* it runs before any other callback or call
Quiet == \A h \in Handles : run[h].pc # "resuming"

\* the slot was never used
Unused(h) == run[h].kind = "none"

\* the slot holds nothing that can still act: its closures can be dropped
Free(h) ==
  \/ run[h].kind = "none"
  \/ run[h].kind = "manual" /\ ~handle[h].id
  \/ run[h].kind = "snap" /\ ~snap[h].interval
  \/ run[h].pc \in {"done", "failed", "aborted"}

\* ---------------------------------------------------------- animated bar
\* start(label, initialPct): let pct, setInterval(..., renderInterval), one paint
\* id is whether the timer is set, every its delay              (lines 100-109)
MutStartNoPaint(h, e, label, initialPct) ==
  /\ CanPaint(e)
  /\ handle' = [handle EXCEPT ![h] =
       [ live |-> TRUE, e |-> e, label |-> label, pct |-> initialPct,
         id |-> TRUE, every |-> cfg[e].renderInterval ]]
  /\ UNCHANGED <<term, frameIdx>>
start(h, e, label, initialPct) ==
  /\ CanPaint(e)
  /\ handle' = [handle EXCEPT ![h] =
       [ live |-> TRUE, e |-> e, label |-> label, pct |-> initialPct,
         id |-> TRUE, every |-> cfg[e].renderInterval ]]
  /\ LET p == paint(term, frameIdx[e], e, label, initialPct)
     IN  /\ term' = p.term
         /\ frameIdx' = [frameIdx EXCEPT ![e] = p.frameIdx]

\* setPct(v) { pct = v; }                                            (line 105)
MutSetPctClamps(h, v) == [handle EXCEPT ![h].pct = Clamped(v)]
setPct(h, v) == [handle EXCEPT ![h].pct = v]

\* getPct() { return pct; }                                          (line 106)
getPct(h) == handle[h].pct

\* stop() { clearInterval(id); }                                     (line 107)
MutStopKeepsTimer(hd, h) == hd
stop(hd, h) == [hd EXCEPT ![h].id = FALSE]

\* a caller's start(label, initialPct)
Start(h, e, label, initialPct) ==
  /\ Quiet /\ Free(h)
  /\ start(h, e, label, initialPct)
  /\ run' = [run EXCEPT ![h] = [NoRun EXCEPT !.kind = "manual"]]
  /\ snap' = [snap EXCEPT ![h] = NoSnap]
  /\ calls' = [calls EXCEPT ![h] = <<>>]
  /\ log' = [log EXCEPT ![h] = <<>>]
  /\ UNCHANGED cfg

\* a caller's handle.setPct(v), before or after stop
SetPct(h, v) ==
  /\ Quiet /\ run[h].kind = "manual" /\ handle[h].live
  /\ handle' = setPct(h, v)
  /\ UNCHANGED <<cfg, frameIdx, term, run, snap, calls, log>>

\* a caller's handle.stop()
Stop(h) ==
  /\ Quiet /\ run[h].kind = "manual" /\ handle[h].live
  /\ handle' = stop(handle, h)
  /\ UNCHANGED <<cfg, frameIdx, term, run, snap, calls, log>>

\* the render timer of a handle fires: () => paint(label, pct)      (line 102)
MutTickSharedIndex(h) ==
  /\ Quiet /\ handle[h].live /\ handle[h].id /\ CanPaint(handle[h].e)
  /\ LET e == handle[h].e
         p == paint(term, frameIdx[e], e, handle[h].label, handle[h].pct)
     IN  /\ term' = p.term
         /\ frameIdx' = [o \in Engines |-> frameIdx[o] + 1]
  /\ UNCHANGED <<cfg, handle, run, snap, calls, log>>
Tick(h) ==
  /\ Quiet /\ handle[h].live /\ handle[h].id /\ CanPaint(handle[h].e)
  /\ LET e == handle[h].e
         p == paint(term, frameIdx[e], e, handle[h].label, handle[h].pct)
     IN  /\ term' = p.term
         /\ frameIdx' = [frameIdx EXCEPT ![e] = p.frameIdx]
  /\ UNCHANGED <<cfg, handle, run, snap, calls, log>>

\* ------------------------------------------------ direct calls of a caller
Paint(e, label, pct) ==
  /\ Quiet /\ CanPaint(e)
  /\ LET p == paint(term, frameIdx[e], e, label, pct)
     IN  /\ term' = p.term
         /\ frameIdx' = [frameIdx EXCEPT ![e] = p.frameIdx]
  /\ UNCHANGED <<cfg, handle, run, snap, calls, log>>

Succeed(label) ==
  /\ Quiet /\ term' = succeed(term, label)
  /\ UNCHANGED <<cfg, frameIdx, handle, run, snap, calls, log>>

Fail(label) ==
  /\ Quiet /\ term' = fail(term, label)
  /\ UNCHANGED <<cfg, frameIdx, handle, run, snap, calls, log>>

Info(label) ==
  /\ Quiet /\ term' = info(term, label)
  /\ UNCHANGED <<cfg, frameIdx, handle, run, snap, calls, log>>

Warn(label) ==
  /\ Quiet /\ term' = warn(term, label)
  /\ UNCHANGED <<cfg, frameIdx, handle, run, snap, calls, log>>

\* ------------------------------------------------- the log of a completion
Ev(name) == [ev |-> name, pct |-> Zero, label |-> NoLabel, text |-> <<>>]
EvPaint(pct) == [ev |-> "paint", pct |-> pct, label |-> NoLabel, text |-> <<>>]
EvLine(name, label) == [ev |-> name, pct |-> Zero, label |-> label, text |-> <<>>]
EvText(name, text) == [ev |-> name, pct |-> Zero, label |-> NoLabel, text |-> text]

\* ------------------------------------------------------------- snapTo100
\* currentPct + (1 - currentPct) * (frame / totalFrames)            (line 121)
MutSnapValueFromZero(currentPct, frame) == Rat(frame, totalFrames)
SnapValue(currentPct, frame) ==
  Rat(totalFrames * currentPct.n + (currentPct.d - currentPct.n) * frame,
      totalFrames * currentPct.d)

\* finalLabel || label: undefined and "" are falsy                  (line 124)
OrLabel(finalLabel, label) ==
  IF finalLabel \in {NoLabel, ""} THEN label ELSE finalLabel

\* snapTo100(label, currentPct, finalLabel): frame = 0, setInterval(..., 30)
snapTo100(h, e, label, currentPct, finalLabel) ==
  [snap EXCEPT ![h] =
     [ interval |-> TRUE, e |-> e, frame |-> 0, currentPct |-> currentPct,
       label |-> label, finalLabel |-> finalLabel, promise |-> "pending" ]]

\* a caller's snapTo100(label, currentPct, finalLabel)
SnapTo100(h, e, label, currentPct, finalLabel) ==
  /\ Quiet /\ Free(h)
  /\ snap' = snapTo100(h, e, label, currentPct, finalLabel)
  /\ run' = [run EXCEPT ![h] = [NoRun EXCEPT !.kind = "snap"]]
  /\ handle' = [handle EXCEPT ![h] = NoHandle]
  /\ calls' = [calls EXCEPT ![h] = <<>>]
  /\ log' = [log EXCEPT ![h] = <<>>]
  /\ UNCHANGED <<cfg, frameIdx, term>>

\* the snap timer fires                                        (lines 119-127)
SnapFrame(h) ==
  /\ Quiet /\ snap[h].interval /\ CanPaint(snap[h].e)
  /\ LET sn == snap[h]
         e == sn.e
         frame == sn.frame + 1
         value == SnapValue(sn.currentPct, frame)
         p == paint(term, frameIdx[e], e, sn.label, value)
         final == OrLabel(sn.finalLabel, sn.label)
         last == frame >= totalFrames
         awaited == run[h].kind \in {"estimated", "tracked"}
     IN  /\ frameIdx' = [frameIdx EXCEPT ![e] = p.frameIdx]
         /\ term' = IF last THEN succeed(p.term, final) ELSE p.term
         /\ snap' = [snap EXCEPT ![h].frame = frame,
                                 ![h].interval = ~last,
                                 ![h].promise = IF last THEN "resolved" ELSE @]
         /\ log' = [log EXCEPT ![h] =
              IF last THEN @ \o <<EvPaint(value), EvLine("succeed", final)>>
              ELSE Append(@, EvPaint(value))]
         /\ run' = [run EXCEPT ![h].pc =
              IF last /\ awaited THEN "resuming" ELSE @]
  /\ UNCHANGED <<cfg, handle, calls>>

\* ----------------------------------------------------------- text helpers
\* text is a sequence of characters; " " stands for every whitespace character
IsSpace(c) == c = " "

RECURSIVE TrimStart(_)
TrimStart(t) == IF t # <<>> /\ IsSpace(Head(t)) THEN TrimStart(Tail(t)) ELSE t

RECURSIVE TrimEnd(_)
TrimEnd(t) ==
  IF t # <<>> /\ IsSpace(t[Len(t)]) THEN TrimEnd(SubSeq(t, 1, Len(t) - 1)) ELSE t

\* String.prototype.trim
Trim(t) == TrimEnd(TrimStart(t))

\* ---------------------------------------------------------- easing driver
\* Math.exp(-q / 4) in units of 1/1000, rounded down
RECURSIVE ExpNegQuarter(_)
ExpNegQuarter(q) ==
  IF q = 0 THEN 1000 ELSE (ExpNegQuarter(q - 1) * 7788) \div 10000

\* 0.9 * (1 - Math.exp(-2.5 * (elapsed / adjustedMs))) with              (line 161)
\* adjustedMs = estimatedMs * (1 + estimateBuffer)                       (line 155)
\* elapsed / 0 is Infinity for elapsed > 0, and Math.exp(-Infinity) is 0
MutEaseToOne(e, estimatedMs, elapsed) ==
  LET b == cfg[e].estimateBuffer
      quarters == (10 * elapsed * b.d) \div (estimatedMs * (b.d + b.n))
  IN  IF estimatedMs = 0 THEN One
      ELSE Rat(10 * (1000 - ExpNegQuarter(quarters)), 10000)
Ease(e, estimatedMs, elapsed) ==
  LET b == cfg[e].estimateBuffer
      quarters == (10 * elapsed * b.d) \div (estimatedMs * (b.d + b.n))
  IN  IF estimatedMs = 0 THEN Rat(9, 10)
      ELSE Rat(9 * (1000 - ExpNegQuarter(quarters)), 10000)

\* --------------------------------------------------------- command runners
\* runEstimated({label, command, estimatedMs, doneLabel, tolerateFailure}) up
\* to the spawn: start(label), the sampling timer, the child      (lines 147-172)
\* doneLabel and tolerateFailure are read by the close handler alone and never
\* written: the model draws them where they are read, in Close.
RunEstimated(h, e, label, estimatedMs) ==
  /\ Quiet /\ Free(h)
  /\ start(h, e, label, Zero)
  /\ run' = [run EXCEPT ![h] =
       [NoRun EXCEPT !.kind = "estimated", !.pc = "running",
                     !.estimatedMs = estimatedMs,
                     !.pctInterval = TRUE, !.promise = "pending"]]
  /\ snap' = [snap EXCEPT ![h] = NoSnap]
  /\ calls' = [calls EXCEPT ![h] = <<>>]
  /\ log' = [log EXCEPT ![h] = <<>>]
  /\ UNCHANGED cfg

\* the sampling timer fires                                        (lines 159-162)
MutSampleResolves(h) ==
  /\ Quiet /\ run[h].kind = "estimated" /\ run[h].pctInterval
  /\ LET elapsed == run[h].elapsed + SampleIntervalMs
     IN  /\ run' = [run EXCEPT ![h].elapsed = elapsed,
                              ![h].promise = IF elapsed >= run[h].estimatedMs
                                             THEN "resolved" ELSE @]
         /\ handle' = setPct(h, Ease(handle[h].e, run[h].estimatedMs, elapsed))
  /\ UNCHANGED <<cfg, frameIdx, term, snap, calls, log>>
Sample(h) ==
  /\ Quiet /\ run[h].kind = "estimated" /\ run[h].pctInterval
  /\ LET elapsed == run[h].elapsed + SampleIntervalMs
     IN  /\ run' = [run EXCEPT ![h].elapsed = elapsed]
         /\ handle' = setPct(h, Ease(handle[h].e, run[h].estimatedMs, elapsed))
  /\ UNCHANGED <<cfg, frameIdx, term, snap, calls, log>>

\* child.stdout.on("data", () => {})                                    (line 171)
EstimatedStdout(h) ==
  /\ Quiet /\ run[h].kind = "estimated" /\ run[h].pc = "running"
  /\ UNCHANGED vars

\* child.stderr.on("data", (d) => { stderr += d.toString(); })          (line 172)
MutEstimatedStderrAdvances(h, text) ==
  /\ Quiet /\ run[h].kind = "estimated" /\ run[h].pc = "running"
  /\ run' = [run EXCEPT ![h].stderr = @ \o text]
  /\ handle' = setPct(h, One)
  /\ UNCHANGED <<cfg, frameIdx, term, snap, calls, log>>
EstimatedStderr(h, text) ==
  /\ Quiet /\ run[h].kind = "estimated" /\ run[h].pc = "running"
  /\ run' = [run EXCEPT ![h].stderr = @ \o text]
  /\ UNCHANGED <<cfg, frameIdx, term, handle, snap, calls, log>>

\* runTracked({label, command, total, onOutput, parseProgress, doneLabel,
\* tolerateFailure}) up to the spawn; doneLabel and tolerateFailure as in
\* RunEstimated                                                    (lines 211-239)
RunTracked(h, e, label, total, onOutput, parseProgress) ==
  /\ Quiet /\ Free(h)
  /\ start(h, e, label, Zero)
  /\ run' = [run EXCEPT ![h] =
       [NoRun EXCEPT !.kind = "tracked", !.pc = "running", !.total = total,
                     !.onOutput = onOutput, !.parseProgress = parseProgress,
                     !.promise = "pending"]]
  /\ snap' = [snap EXCEPT ![h] = NoSnap]
  /\ calls' = [calls EXCEPT ![h] = <<>>]
  /\ log' = [log EXCEPT ![h] = <<>>]
  /\ UNCHANGED cfg

\* bar.increment(): completed++; if (total) render.setPct(completed / total)
\* The result is the new run and handle.                          (lines 227-230)
MutIncrementByTwo(rn, hd, h) ==
  [ run |-> [rn EXCEPT ![h].completed = @ + 2],
    handle |-> IF rn[h].total # 0
               THEN [hd EXCEPT ![h].pct = Rat(rn[h].completed + 2, rn[h].total)]
               ELSE hd ]
increment(rn, hd, h) ==
  [ run |-> [rn EXCEPT ![h].completed = @ + 1],
    handle |-> IF rn[h].total # 0
               THEN [hd EXCEPT ![h].pct = Rat(rn[h].completed + 1, rn[h].total)]
               ELSE hd ]

\* what parseProgress(text) does for one chunk: returns a ratio, null or
\* undefined, or throws
Absent == {"null", "undefined"}
ParseRatios == {Rat(1, 2), Rat(3, 2)}
ParseOutcomes == {[ret |-> r] : r \in Absent \cup {"throw"}}
                   \cup {[ret |-> "value", v |-> v] : v \in ParseRatios}

\* what onOutput(text, bar) does for one chunk
ObserverRatios == {Rat(1, 4)}
ObserverOutcomes == {[act |-> a] : a \in {"none", "increment", "throw"}}
                      \cup {[act |-> "setPct", v |-> v] : v \in ObserverRatios}

\* one invocation of a callback and how it ended: "returned" (for the parser:
\* a ratio), "absent" (the parser returned null or undefined) or "threw"
Called(fn, outcome) == [fn |-> fn, outcome |-> outcome]

ParseEnd(parsed) ==
  IF parsed.ret = "throw" THEN "threw"
  ELSE IF parsed.ret \in Absent THEN "absent" ELSE "returned"

ObserveEnd(observed) == IF observed.act = "throw" THEN "threw" ELSE "returned"

\* processData without the test for null and undefined: the absent value is
\* stored, and shows as 0
MutProcessDataNoNullCheck(h, text, isStderr, parsed, observed) ==
  LET r0 == IF isStderr THEN [run EXCEPT ![h].stderr = @ \o text] ELSE run
      parses == run[h].parseProgress
      threw == parses /\ parsed.ret = "throw"
      h1 == IF parses /\ parsed.ret = "value" THEN setPct(h, parsed.v)
            ELSE IF parses /\ parsed.ret \in Absent THEN setPct(h, Zero)
            ELSE handle
      observes == run[h].onOutput /\ ~threw
      inc == increment(r0, h1, h)
      r2 == IF observes /\ observed.act = "increment" THEN inc.run ELSE r0
      h2 == IF observes /\ observed.act = "increment" THEN inc.handle
            ELSE IF observes /\ observed.act = "setPct"
                 THEN [h1 EXCEPT ![h].pct = observed.v]
                 ELSE h1
  IN  [ run |-> r2, handle |-> h2,
        calls |-> (IF parses THEN <<Called("parseProgress", ParseEnd(parsed))>>
                   ELSE <<>>)
                    \o (IF observes THEN <<Called("onOutput", ObserveEnd(observed))>>
                        ELSE <<>>) ]

\* processData that returns early when the parser has no ratio
MutProcessDataReturnsOnAbsent(h, text, isStderr, parsed, observed) ==
  LET r0 == IF isStderr THEN [run EXCEPT ![h].stderr = @ \o text] ELSE run
      parses == run[h].parseProgress
      threw == parses /\ parsed.ret = "throw"
      h1 == IF parses /\ parsed.ret = "value" THEN setPct(h, parsed.v) ELSE handle
      observes == run[h].onOutput /\ ~threw /\ ~(parses /\ parsed.ret \in Absent)
      inc == increment(r0, h1, h)
      r2 == IF observes /\ observed.act = "increment" THEN inc.run ELSE r0
      h2 == IF observes /\ observed.act = "increment" THEN inc.handle
            ELSE IF observes /\ observed.act = "setPct"
                 THEN [h1 EXCEPT ![h].pct = observed.v]
                 ELSE h1
  IN  [ run |-> r2, handle |-> h2,
        calls |-> (IF parses THEN <<Called("parseProgress", ParseEnd(parsed))>>
                   ELSE <<>>)
                    \o (IF observes THEN <<Called("onOutput", ObserveEnd(observed))>>
                        ELSE <<>>) ]

\* processData(text, isStderr)                                    (lines 241-248)
\* parsed and observed are what the two callbacks do for this chunk; a callback
\* that throws ends the handler there.  The result is the new run and handle
\* and the callbacks invoked.
processData(h, text, isStderr, parsed, observed) ==
  LET r0 == IF isStderr THEN [run EXCEPT ![h].stderr = @ \o text] ELSE run
      parses == run[h].parseProgress
      threw == parses /\ parsed.ret = "throw"
      h1 == IF parses /\ parsed.ret = "value" THEN setPct(h, parsed.v) ELSE handle
      observes == run[h].onOutput /\ ~threw
      inc == increment(r0, h1, h)
      r2 == IF observes /\ observed.act = "increment" THEN inc.run ELSE r0
      h2 == IF observes /\ observed.act = "increment" THEN inc.handle
            ELSE IF observes /\ observed.act = "setPct"
                 THEN [h1 EXCEPT ![h].pct = observed.v]
                 ELSE h1
  IN  [ run |-> r2, handle |-> h2,
        calls |-> (IF parses THEN <<Called("parseProgress", ParseEnd(parsed))>>
                   ELSE <<>>)
                    \o (IF observes THEN <<Called("onOutput", ObserveEnd(observed))>>
                        ELSE <<>>) ]

\* child.stdout / child.stderr "data" of a tracked run            (lines 250-251)
TrackedData(h, text, isStderr, parsed, observed) ==
  /\ Quiet /\ run[h].kind = "tracked" /\ run[h].pc = "running"
  /\ LET d == processData(h, text, isStderr, parsed, observed)
     IN  /\ calls' = [calls EXCEPT ![h] = d.calls]
         /\ run' = d.run
         /\ handle' = d.handle
  /\ UNCHANGED <<cfg, frameIdx, term, snap, log>>

\* ------------------------------------------------------- completion
Function == "<function>"

\* what tolerateFailure() and a doneLabel() function do when they are invoked
TolerateOutcomes == {"true", "false", "throw"}
DoneLabelOutcomes == {"computed", "throw"}

\* code === 0 || (tolerateFailure && tolerateFailure())      (lines 176-177)
\* asks: tolerateFailure is given; tolerated: what it does when invoked
MutOkIgnoresTolerate(code, asks, tolerated) == code = 0
isOk(code, asks, tolerated) == code = 0 \/ (asks /\ tolerated = "true")

\* the text console.error prints after a failure, <<>> for none:
\* if (stderr.trim()) console.error(`\n${stderr.trim()}\n`)   (lines 185-186)
MutErrorBlockUntrimmed(stderr) == stderr
errorBlock(stderr) == Trim(stderr)

\* child.on("close", async (code) => {...}) up to its await or its end
\*                                             (lines 173-189 and 253-268)
\* opts are the run's doneLabel and tolerateFailure (is one given); tolerated
\* and labelled are what the two callbacks do if they are invoked.
\* The result is the new handle, run, snap, term and log.
closeHandler(h, code, opts, tolerated, labelled) ==
  LET rn == [run[h] EXCEPT !.doneLabel = opts.doneLabel,
                           !.tolerateFailure = opts.tolerateFailure]
      estimated == rn.kind = "estimated"
      stopped == stop(handle, h)
      log0 == (IF estimated THEN <<Ev("clearInterval")>> ELSE <<>>) \o <<Ev("stop")>>
      asks == code # 0 /\ rn.tolerateFailure
      log1 == log0 \o (IF asks THEN <<EvLine("tolerateFailure", tolerated)>> ELSE <<>>)
      tolThrew == asks /\ tolerated = "throw"
      ok == isOk(code, asks, tolerated)
      labels == ok /\ rn.doneLabel = Function
      log2 == log1 \o (IF labels THEN <<EvLine("doneLabel", labelled)>> ELSE <<>>)
      dlThrew == labels /\ labelled = "throw"
      final == IF rn.doneLabel = Function THEN labelled ELSE rn.doneLabel
      trimmed == errorBlock(rn.stderr)
      closed == [rn EXCEPT !.code = code, !.pctInterval = FALSE]
  IN  IF tolThrew \/ dlThrew THEN
        [ handle |-> stopped,
          run |-> [run EXCEPT ![h] = [closed EXCEPT !.pc = "aborted"]],
          snap |-> snap,
          term |-> term,
          log |-> Append(IF tolThrew THEN log1 ELSE log2, Ev("throw")) ]
      ELSE IF ok THEN
        [ handle |-> stopped,
          run |-> [run EXCEPT ![h] = [closed EXCEPT !.pc = "snapping"]],
          snap |-> snapTo100(h, handle[h].e, handle[h].label, stopped[h].pct, final),
          term |-> term,
          log |-> log2 ]
      ELSE
        [ handle |-> stopped,
          run |-> [run EXCEPT ![h] =
                     [closed EXCEPT !.pc = "failed", !.promise = "rejected",
                                    !.error = code]],
          snap |-> snap,
          term |-> IF trimmed # <<>>
                   THEN [fail(term, handle[h].label) EXCEPT !.errBlock = trimmed]
                   ELSE fail(term, handle[h].label),
          log |-> log1 \o <<EvLine("fail", handle[h].label)>>
                    \o (IF trimmed # <<>> THEN <<EvText("console.error", trimmed)>>
                        ELSE <<>>)
                    \o <<Ev("reject")>> ]

\* the child of a run closes with exit code `code`
Close(h, code, opts, tolerated, labelled) ==
  /\ Quiet /\ run[h].kind \in {"estimated", "tracked"} /\ run[h].pc = "running"
  /\ LET c == closeHandler(h, code, opts, tolerated, labelled)
     IN  /\ handle' = c.handle
         /\ run' = c.run
         /\ snap' = c.snap
         /\ term' = c.term
         /\ log' = [log EXCEPT ![h] = c.log]
  /\ UNCHANGED <<cfg, frameIdx, calls>>

\* the close handler resumes after `await snapTo100(...)`: resolve()
\*                                                      (lines 182 and 261)
MutResumeNoResolve(h) ==
  /\ run[h].pc = "resuming"
  /\ run' = [run EXCEPT ![h].pc = "done"]
  /\ log' = [log EXCEPT ![h] = Append(@, Ev("resolve"))]
  /\ UNCHANGED <<cfg, frameIdx, term, handle, snap, calls>>
Resume(h) ==
  /\ run[h].pc = "resuming"
  /\ run' = [run EXCEPT ![h].pc = "done", ![h].promise = "resolved"]
  /\ log' = [log EXCEPT ![h] = Append(@, Ev("resolve"))]
  /\ UNCHANGED <<cfg, frameIdx, term, handle, snap, calls>>

\* ------------------------------------------------------------ the system
NoLine == [glyph |-> "none", label |-> NoLabel, after |-> Blank]
NoBlock == <<>>

\* engines ids created with options from configs, and slots for their handles
InitFor(ids, configs, slots) ==
  /\ cfg \in [ids -> configs]
  /\ frameIdx = [e \in ids |-> 0]
  /\ term = [cur |-> Blank, printed |-> NoLine, errBlock |-> NoBlock]
  /\ handle = [h \in slots |-> NoHandle]
  /\ run = [h \in slots |-> NoRun]
  /\ snap = [h \in slots |-> NoSnap]
  /\ calls = [h \in slots |-> <<>>]
  /\ log = [h \in slots |-> <<>>]

\* one engine with the default options, used for one command run
Init == InitFor({1}, {DefaultConfig}, {1})

EstimatedMsInputs == {0, 1000}
Totals == {0, 2}
DoneLabels == {NoLabel, "", "done", Function}
ExitCodes == {0, 2}
StderrTexts == {<<" ">>, <<"e">>}

\* the inputs an operation reads; one stand-in where it reads none
ParsedFor(h) == IF run[h].parseProgress THEN ParseOutcomes ELSE {[ret |-> "null"]}
ObservedFor(h) == IF run[h].onOutput THEN ObserverOutcomes ELSE {[act |-> "none"]}
TextsFor(isStderr) == IF isStderr THEN StderrTexts ELSE {<<"e">>}
AsksFor(c) == IF c # 0 THEN BOOLEAN ELSE {FALSE}
ToleratedFor(c, asks) == IF c # 0 /\ asks THEN TolerateOutcomes ELSE {"false"}
DoneLabelsFor(c, asks, t) == IF isOk(c, asks, t) THEN DoneLabels ELSE {NoLabel}
LabelledFor(d) == IF d = Function THEN DoneLabelOutcomes ELSE {"computed"}

\* a caller's use of start's handle and of the printers
BarCalls ==
  \/ \E h \in Handles, e \in Engines, l \in Labels, v \in RatioInputs \cup {Zero} :
       Start(h, e, l, v)
  \/ \E h \in Handles, v \in RatioInputs : SetPct(h, v)
  \/ \E h \in Handles : Stop(h)
  \/ \E e \in Engines, l \in Labels, v \in RatioInputs : Paint(e, l, v)
  \/ \E l \in Labels : Succeed(l)
  \/ \E l \in Labels : Fail(l)
  \/ \E l \in Labels : Info(l)
  \/ \E l \in Labels : Warn(l)
  \/ \E h \in Handles, e \in Engines, l \in Labels, v \in RatioInputs,
        f \in DoneLabels \ {Function} : SnapTo100(h, e, l, v, f)

\* the timers
Timers ==
  \/ \E h \in Handles : Tick(h)
  \/ \E h \in Handles : SnapFrame(h)

\* the timers of a command run: the render ticks are capped so that the cap on
\* frameIdx leaves room for the snap
RunTimers ==
  \/ \E h \in Handles : frameIdx[handle[h].e] <= MaxTicks /\ Tick(h)
  \/ \E h \in Handles : SnapFrame(h)

\* the command runners and their events
Runs ==
  \/ \E h \in Handles, e \in Engines, l \in Labels, ms \in EstimatedMsInputs :
       Unused(h) /\ RunEstimated(h, e, l, ms)
  \/ \E h \in Handles : run[h].elapsed < MaxSamples * SampleIntervalMs /\ Sample(h)
  \/ \E h \in Handles : EstimatedStdout(h)
  \/ \E h \in Handles, t \in StderrTexts :
       Len(run[h].stderr) + Len(t) <= MaxStderr /\ EstimatedStderr(h, t)
  \/ \E h \in Handles, e \in Engines, l \in Labels, n \in Totals,
        o \in BOOLEAN, p \in BOOLEAN : Unused(h) /\ RunTracked(h, e, l, n, o, p)
  \/ \E h \in Handles, s \in BOOLEAN :
       \E t \in TextsFor(s), p \in ParsedFor(h), o \in ObservedFor(h) :
         /\ s => Len(run[h].stderr) + Len(t) <= MaxStderr
         /\ run[h].completed < MaxCompleted
         /\ TrackedData(h, t, s, p, o)
  \/ \E h \in Handles, c \in ExitCodes :
       \E asks \in AsksFor(c) :
         \E t \in ToleratedFor(c, asks) :
           \E d \in DoneLabelsFor(c, asks, t) :
             \E f \in LabelledFor(d) :
               Close(h, c, [doneLabel |-> d, tolerateFailure |-> asks], t, f)
  \/ \E h \in Handles : Resume(h)

Next == RunTimers \/ Runs

Spec == Init /\ [][Next]_vars

\* the event loop runs a timer callback that is due and a queued microtask:
\* the snap timer keeps firing until it is cleared, and the continuation of
\* the close handler runs once the snap's promise is resolved
Fairness ==
  \A h \in {1} : WF_vars(SnapFrame(h)) /\ WF_vars(Resume(h))

\* one command run, its output reduced to easing samples and counted steps,
\* its close with every exit code, option and callback outcome
NextLive ==
  \/ RunTimers
  \/ \E h \in Handles, e \in Engines, l \in Labels, ms \in EstimatedMsInputs :
       Unused(h) /\ RunEstimated(h, e, l, ms)
  \/ \E h \in Handles : run[h].elapsed < MaxSamples * SampleIntervalMs /\ Sample(h)
  \/ \E h \in Handles, e \in Engines, l \in Labels, n \in Totals \ {0} :
       Unused(h) /\ RunTracked(h, e, l, n, TRUE, FALSE)
  \/ \E h \in Handles :
       /\ run[h].completed < MaxCompleted
       /\ TrackedData(h, <<"e">>, FALSE, [ret |-> "null"], [act |-> "increment"])
  \/ \E h \in Handles, c \in ExitCodes :
       \E asks \in AsksFor(c) :
         \E t \in ToleratedFor(c, asks) :
           \E d \in DoneLabelsFor(c, asks, t) :
             \E f \in LabelledFor(d) :
               Close(h, c, [doneLabel |-> d, tolerateFailure |-> asks], t, f)
  \/ \E h \in Handles : Resume(h)

SpecLive == Init /\ [][NextLive]_vars /\ Fairness

\* one engine with any of the options, used through start, snapTo100, paint
\* and the printers
InitBar == InitFor({1}, Configs, {1})

NextBar == Timers \/ BarCalls

SpecBar == InitBar /\ [][NextBar]_vars

\* one tracked run that counts steps with bar.increment(): total is 10 or not
\* set, the observer increments for a chunk or does nothing
StepTotals == {0, 10}
StepOutcomes == {[act |-> a] : a \in {"none", "increment"}}

NextSteps ==
  \/ RunTimers
  \/ \E h \in Handles, e \in Engines, l \in Labels, n \in StepTotals :
       Unused(h) /\ RunTracked(h, e, l, n, TRUE, FALSE)
  \/ \E h \in Handles, o \in StepOutcomes :
       /\ run[h].completed < MaxSteps
       /\ TrackedData(h, <<"e">>, FALSE, [ret |-> "null"], o)
  \/ \E h \in Handles, c \in ExitCodes :
       Close(h, c, [doneLabel |-> NoLabel, tolerateFailure |-> FALSE],
             "false", "computed")
  \/ \E h \in Handles : Resume(h)

SpecSteps == Init /\ [][NextSteps]_vars

\* one engine with any of the options, used for bars and runs one after the
\* other: every operation, each with one input
Half == Rat(1, 2)

NextAll ==
  \/ Timers
  \/ \E h \in Handles, e \in Engines, l \in Labels : Start(h, e, l, Zero)
  \/ \E h \in Handles : SetPct(h, Half)
  \/ \E h \in Handles : Stop(h)
  \/ \E e \in Engines, l \in Labels : Paint(e, l, Half)
  \/ \E l \in Labels : Succeed(l)
  \/ \E l \in Labels : Fail(l)
  \/ \E l \in Labels : Info(l)
  \/ \E l \in Labels : Warn(l)
  \/ \E h \in Handles, e \in Engines, l \in Labels : SnapTo100(h, e, l, Half, NoLabel)
  \/ \E h \in Handles, e \in Engines, l \in Labels : 
       \E ms \in EstimatedMsInputs \ {0} : RunEstimated(h, e, l, ms)
  \/ \E h \in Handles : run[h].elapsed < MaxSamples * SampleIntervalMs /\ Sample(h)
  \/ \E h \in Handles, e \in Engines, l \in Labels, n \in Totals \ {0} :
       RunTracked(h, e, l, n, TRUE, FALSE)
  \/ \E h \in Handles :
       /\ run[h].completed < MaxCompleted
       /\ TrackedData(h, <<"e">>, FALSE, [ret |-> "null"], [act |-> "increment"])
  \/ \E h \in Handles, c \in ExitCodes :
       Close(h, c, [doneLabel |-> NoLabel, tolerateFailure |-> FALSE],
             "false", "computed")
  \/ \E h \in Handles : Resume(h)

SpecAll == InitBar /\ [][NextAll]_vars

\* two engines with different options, each with one slot for its handles
\* (slot e belongs to engine e), used at the same time
InitTwo == InitFor({1, 2}, Configs, {1, 2}) /\ cfg[1] = DefaultConfig /\ cfg[2] # cfg[1]

NextTwo ==
  \/ \E e \in Engines, l \in Labels : Unused(e) /\ Start(e, e, l, Zero)
  \/ \E e \in Engines : SetPct(e, Half)
  \/ \E e \in Engines : Stop(e)
  \/ \E e \in Engines : frameIdx[e] <= MaxTicks /\ Tick(e)
  \/ \E e \in Engines, l \in Labels : frameIdx[e] <= MaxTicks /\ Paint(e, l, Half)
  \/ \E e \in Engines, l \in Labels, n \in Totals \ {0} :
       Unused(e) /\ RunTracked(e, e, l, n, TRUE, FALSE)
  \/ \E e \in Engines :
       /\ run[e].completed < MaxCompleted
       /\ TrackedData(e, <<"e">>, FALSE, [ret |-> "null"], [act |-> "increment"])
  \/ \E e \in Engines, c \in ExitCodes :
       Close(e, c, [doneLabel |-> NoLabel, tolerateFailure |-> FALSE],
             "false", "computed")
  \/ \E e \in Engines : SnapFrame(e)
  \/ \E e \in Engines : Resume(e)

SpecTwo == InitTwo /\ [][NextTwo]_vars

\* ======================================================================
\* Properties
\* ======================================================================
IsRun(h) == run[h].kind \in {"estimated", "tracked"}

\* the close event of the run was handled
Closed(h) == IsRun(h) /\ run[h].pc \notin {"idle", "running"}

\* what the close handling did, callbacks and clearInterval(pctInterval) left out
Steps(h) ==
  SelectSeq(log[h], LAMBDA x : x.ev \in {"stop", "paint", "succeed", "resolve",
                                         "fail", "console.error", "reject"})

Count(h, name) == Len(SelectSeq(log[h], LAMBDA x : x.ev = name))

Logged(h, event) == \E i \in 1 .. Len(log[h]) : log[h][i] = event

\* C1: after a close with exit code 0 the completion steps are, in this order:
\* the render timer is stopped, then 8 snap frames are painted, the k-th with
\* r0 + (1 - r0) * k / 8 for the ratio r0 at stop (the 8th with exactly 1), then
\* the success line is printed once, and only then the run's promise resolves.
C1Theorem ==
  \A h \in Handles :
    Closed(h) /\ run[h].code = 0 =>
      LET st == Steps(h)
          r0 == handle[h].pct
      IN  /\ ~handle[h].id
          /\ 1 <= Len(st) /\ Len(st) <= totalFrames + 3
          /\ \A i \in 1 .. Len(st) :
               /\ i = 1 => st[i].ev = "stop"
               /\ 2 <= i /\ i <= totalFrames + 1 =>
                    /\ st[i].ev = "paint"
                    /\ st[i].pct = Rat(totalFrames * r0.n + (r0.d - r0.n) * (i - 1),
                                        totalFrames * r0.d)
               /\ i = totalFrames + 2 => st[i].ev = "succeed"
               /\ i = totalFrames + 3 => st[i].ev = "resolve"
          /\ Len(st) >= totalFrames + 1 => st[totalFrames + 1].pct = One
          /\ snap[h].frame = Count(h, "paint")
          /\ Len(st) >= totalFrames + 2 => term.printed.glyph = "ok"
          /\ run[h].promise = "resolved" <=> Len(st) = totalFrames + 3
          /\ run[h].pc = "done" <=> Len(st) = totalFrames + 3
          /\ run[h].promise # "rejected"

\* a tracked run that closed with 0 at ratio 1/2 and went through all the steps
C1Witness ==
  \E h \in Handles :
    /\ run[h].kind = "tracked" /\ run[h].code = 0 /\ run[h].pc = "done"
    /\ handle[h].pct = Rat(1, 2)
    /\ run[h].promise = "resolved"
    /\ Len(Steps(h)) = totalFrames + 3
    /\ Steps(h)[2] = EvPaint(Rat(9, 16))

\* the close was a failure the caller did not tolerate: a non-zero exit code and
\* tolerateFailure absent or returning false
Untolerated(h) ==
  /\ Closed(h) /\ run[h].code # 0
  /\ \/ Count(h, "tolerateFailure") = 0
     \/ Logged(h, EvLine("tolerateFailure", "false"))

C2Failure(h) ==
  /\ run[h].promise = "rejected" /\ run[h].error = run[h].code
  /\ Count(h, "fail") = 1
  /\ term.printed = Line("x", handle[h].label, Blank)
  /\ Count(h, "paint") = 0 /\ snap[h].frame = 0 /\ ~snap[h].interval
  /\ Count(h, "succeed") = 0
  /\ ~handle[h].id

Tolerated(h) ==
  Closed(h) /\ run[h].code # 0 /\ Logged(h, EvLine("tolerateFailure", "true"))

\* C3: a non-zero exit that tolerateFailure answers with true takes the success
\* path: the promise is not rejected and resolves at the end of the snap, the
\* success line is printed and no failure line; tolerateFailure is not invoked
\* before the close event.
C3Theorem ==
  \A h \in Handles :
    /\ IsRun(h) /\ run[h].pc = "running" => Count(h, "tolerateFailure") = 0
    /\ Count(h, "tolerateFailure") <= 1
    /\ Tolerated(h) =>
         /\ run[h].promise # "rejected" /\ run[h].error = NoCode
         /\ Count(h, "fail") = 0 /\ term.printed.glyph # "x"
         /\ run[h].pc \in {"snapping", "resuming", "done", "aborted"}
         /\ run[h].pc = "aborted" => Logged(h, EvLine("doneLabel", "throw"))
         /\ run[h].pc # "aborted" => snap[h].promise # "none"
         /\ run[h].pc = "done" =>
              /\ run[h].promise = "resolved"
              /\ Count(h, "succeed") = 1 /\ term.printed.glyph = "ok"
         /\ run[h].promise = "resolved" => run[h].pc = "done"

\* a tracked run that closed with 2, was tolerated and resolved
C3Witness ==
  \E h \in Handles :
    /\ run[h].kind = "tracked" /\ Tolerated(h) /\ run[h].code = 2
    /\ run[h].pc = "done" /\ run[h].promise = "resolved"
    /\ term.printed.glyph = "ok"

\* C4: for every ratio handed to the renderer, also below 0 and above 1, and
\* every configured barWidth, the bar has round(barWidth * clamp(r, 0, 1)) filled
\* glyphs (halves rounded up) and barWidth minus that many empty glyphs, so the
\* filled count is within 0 .. barWidth and the two counts add up to barWidth.
C4Theorem ==
  term.cur.kind = "frame" =>
    LET f == term.cur
        bw == cfg[f.e].barWidth
        r == f.pct
        c == IF r.n < 0 THEN Zero ELSE IF r.n > r.d THEN One ELSE r
    IN  /\ 0 <= f.bar.filled /\ f.bar.filled <= bw
        /\ f.bar.filled + f.bar.empty = bw
        /\ f.bar.empty >= 0
        /\ 2 * f.bar.filled * c.d <= 2 * bw * c.n + c.d
        /\ 2 * bw * c.n + c.d < 2 * (f.bar.filled + 1) * c.d

\* a frame painted for the ratio 3/2 on the 5-glyph bar: all 5 glyphs are filled
C4Witness ==
  /\ term.cur.kind = "frame"
  /\ term.cur.pct = Rat(3, 2)
  /\ cfg[term.cur.e].barWidth = 5
  /\ term.cur.bar = [filled |-> 5, empty |-> 0]

\* a paint call on engine e: a render tick, the initial frame of start (alone
\* or in a runner), a snap frame, a direct paint
PaintCall(e) ==
  \/ \E h \in Handles : handle[h].e = e /\ Tick(h)
  \/ \E h \in Handles : snap[h].e = e /\ SnapFrame(h)
  \/ \E h \in Handles, l \in Labels : Start(h, e, l, Zero)
  \/ \E l \in Labels : Paint(e, l, Half)
  \/ \E h \in Handles, l \in Labels, ms \in EstimatedMsInputs :
       RunEstimated(h, e, l, ms)
  \/ \E h \in Handles, l \in Labels, n \in Totals :
       RunTracked(h, e, l, n, TRUE, FALSE)

\* an operation that is no paint call
OtherCall ==
  \/ \E l \in Labels : Succeed(l) \/ Fail(l) \/ Info(l) \/ Warn(l)
  \/ \E h \in Handles : SetPct(h, Half) \/ Stop(h) \/ Sample(h) \/ Resume(h)
  \/ \E h \in Handles, e \in Engines, l \in Labels : SnapTo100(h, e, l, Half, NoLabel)
  \/ \E h \in Handles :
       TrackedData(h, <<"e">>, FALSE, [ret |-> "null"], [act |-> "increment"])
  \/ \E h \in Handles, c \in ExitCodes :
       Close(h, c, [doneLabel |-> NoLabel, tolerateFailure |-> FALSE],
             "false", "computed")

\* C5: within one engine, every paint call (a render tick, the initial frame of
\* start, a snap frame, a direct paint) writes a frame with
\* spinnerFrames[i mod frameCount] for the index i before the call and raises
\* the index by exactly 1; no other operation changes the index, and a start
\* (of a bar or of a run) does not reset it: it goes on from where it was.
C5Theorem ==
  [][\A e \in Engines :
       LET i == frameIdx[e]
           n == Len(cfg[e].spinnerFrames)
       IN  /\ PaintCall(e) =>
                /\ frameIdx'[e] = i + 1
                /\ term'.cur # Blank =>
                     /\ term'.cur.kind = "frame" /\ term'.cur.e = e
                     /\ term'.cur.spinner = cfg[e].spinnerFrames[(i % n) + 1]
           /\ OtherCall => frameIdx'[e] = i
           /\ frameIdx'[e] # i => PaintCall(e)
    ]_vars

\* a run started after a first run succeeded with its 9 paint calls: its
\* initial frame is the 10th of the engine and shows the 1st of 3 spinner frames
C5Witness ==
  \E h \in Handles :
    /\ IsRun(h) /\ run[h].pc = "running"
    /\ term.printed.glyph = "ok"
    /\ Len(cfg[handle[h].e].spinnerFrames) = 3
    /\ frameIdx[handle[h].e] = totalFrames + 2
    /\ term.cur.kind = "frame" /\ term.cur.spinner = "|"

ParseOnly(h) == run[h].kind = "tracked" /\ run[h].parseProgress /\ ~run[h].onOutput
Both(h) == run[h].kind = "tracked" /\ run[h].parseProgress /\ run[h].onOutput

NoObserver == [act |-> "none"]

\* C6: in a tracked run with parseProgress alone the ratio is 0 until a chunk is
\* handled; a chunk (of stdout or stderr) for which the parser returns a ratio
\* sets the handle's ratio to it, a chunk for which it returns null or undefined
\* leaves the ratio as it is, and nothing else changes the ratio.
C6Theorem ==
  /\ [](\A h \in Handles : ParseOnly(h) /\ calls[h] = <<>> => getPct(h) = Zero)
  /\ [][\A h \in Handles :
          ParseOnly(h) =>
            /\ \A s \in BOOLEAN, p \in ParseOutcomes :
                 \A t \in TextsFor(s) :
                   TrackedData(h, t, s, p, NoObserver) =>
                     /\ getPct(h)' = IF p.ret = "value" THEN p.v ELSE getPct(h)
                     /\ calls'[h] = <<Called("parseProgress", ParseEnd(p))>>
            /\ getPct(h)' # getPct(h) =>
                 \E s \in BOOLEAN, p \in ParseOutcomes :
                   \E t \in TextsFor(s) :
                     /\ p.ret = "value" /\ getPct(h)' = p.v
                     /\ TrackedData(h, t, s, p, NoObserver)
       ]_vars

\* the ratio is still 1/2 after a chunk for which the parser returned no value
C6Witness ==
  \E h \in Handles :
    /\ ParseOnly(h) /\ run[h].pc = "running"
    /\ getPct(h) = Rat(1, 2)
    /\ calls[h] = <<Called("parseProgress", "absent")>>

\* C7 as stated: with both callbacks, every chunk invokes the parser and then
\* the observer, whatever the parser did (a ratio, no value, or a throw).
C7Original ==
  \A h \in Handles :
    Both(h) /\ calls[h] # <<>> =>
      /\ Len(calls[h]) = 2
      /\ calls[h][1].fn = "parseProgress"
      /\ calls[h][2].fn = "onOutput"

\* C7 as amended: with both callbacks, the last chunk handled invoked the parser
\* first; when the parser returned (a ratio or no value) the observer was
\* invoked second; when the parser threw the observer was not invoked for that
\* chunk.
C7Theorem ==
  \A h \in Handles :
    Both(h) /\ calls[h] # <<>> =>
      /\ calls[h][1].fn = "parseProgress"
      /\ IF calls[h][1].outcome = "threw"
         THEN Len(calls[h]) = 1
         ELSE Len(calls[h]) = 2 /\ calls[h][2].fn = "onOutput"

\* a chunk for which the parser returned no value, and the observer ran
C7Witness ==
  \E h \in Handles :
    /\ Both(h) /\ run[h].pc = "running"
    /\ calls[h] = <<Called("parseProgress", "absent"), Called("onOutput", "returned")>>

\* the run counts steps: an observer and no parser
Counting(h) == run[h].kind = "tracked" /\ run[h].onOutput /\ ~run[h].parseProgress

\* C8: each bar.increment() raises completed by exactly 1; with total set the
\* handle's ratio becomes completed/total, with total not set the ratio is left
\* as it is.  With total = 10 and 10 increments before an exit with 0 the ratio
\* at stop is 1, each of the 8 snap frames paints 1, and the success line is
\* printed.
C8Theorem ==
  /\ [](\A h \in Handles :
          Counting(h) =>
            /\ getPct(h) = IF run[h].total # 0
                           THEN Rat(run[h].completed, run[h].total) ELSE Zero
            /\ Closed(h) /\ run[h].code = 0 /\ run[h].total = 10
                 /\ run[h].completed = 10 =>
                  /\ getPct(h) = One
                  /\ snap[h].currentPct = One
                  /\ \A i \in 1 .. Len(log[h]) :
                       log[h][i].ev = "paint" => log[h][i].pct = One
                  /\ run[h].pc = "done" =>
                       /\ Count(h, "paint") = totalFrames
                       /\ Logged(h, EvLine("succeed", handle[h].label))
                       /\ term.printed = Line("ok", handle[h].label, Blank))
  /\ [][\A h \in Handles :
          TrackedData(h, <<"e">>, FALSE, [ret |-> "null"], [act |-> "increment"]) =>
            /\ run'[h].completed = run[h].completed + 1
            /\ getPct(h)' = IF run[h].total # 0
                            THEN Rat(run[h].completed + 1, run[h].total)
                            ELSE getPct(h)
       ]_vars

\* total = 10, 10 increments, exit code 0, and the completion went through
C8Witness ==
  \E h \in Handles :
    /\ Counting(h) /\ run[h].total = 10 /\ run[h].completed = 10
    /\ run[h].code = 0 /\ run[h].pc = "done"
    /\ Count(h, "paint") = totalFrames
    /\ Logged(h, EvPaint(One))
    /\ term.printed.glyph = "ok"

\* C9: setPct(v) stores v as it is, also below 0 and above 1; getPct() returns
\* the value of the last setPct, or the initial ratio of start; a render tick
\* paints the value stored at the tick; painting does not change the stored value.
C9Theorem ==
  [][\A h \in Handles :
       /\ \A v \in RatioInputs : SetPct(h, v) => getPct(h)' = v
       /\ \A e \in Engines, l \in Labels, v \in RatioInputs \cup {Zero} :
            Start(h, e, l, v) => getPct(h)' = v
       /\ Tick(h) =>
            /\ term'.cur.kind = "frame"
            /\ term'.cur.pct = getPct(h)
            /\ term'.cur.label = handle[h].label
            /\ getPct(h)' = getPct(h)
       /\ handle[h].live /\ handle'[h].live /\ getPct(h)' # getPct(h) =>
            \/ \E v \in RatioInputs : SetPct(h, v)
            \/ \E e \in Engines, l \in Labels, v \in RatioInputs \cup {Zero} :
                 Start(h, e, l, v)
    ]_vars

\* a live handle that stores 3/2 while the frame on the terminal, painted from
\* it, shows the full bar
C9Witness ==
  \E h \in Handles :
    /\ run[h].kind = "manual" /\ handle[h].live /\ handle[h].id
    /\ getPct(h) = Rat(3, 2)
    /\ term.cur.kind = "frame" /\ term.cur.pct = Rat(3, 2)
    /\ term.cur.bar.empty = 0 /\ term.cur.pctStr = 150
    /\ frameIdx[handle[h].e] >= 2

\* C10: start paints one frame before it returns and sets one recurring timer
\* with the render interval as its delay; each firing of that timer paints once;
\* stop() clears the timer, and a cleared timer never fires again, whatever
\* setPct calls follow.
C10Theorem ==
  [][\A h \in Handles :
       /\ \A e \in Engines, l \in Labels, v \in RatioInputs \cup {Zero} :
            Start(h, e, l, v) =>
              /\ frameIdx'[e] = frameIdx[e] + 1
              /\ term'.cur.kind = "frame" /\ term'.cur.label = l /\ term'.cur.pct = v
              /\ handle'[h].id /\ handle'[h].every = cfg[e].renderInterval
       /\ Tick(h) =>
            /\ handle[h].id
            /\ frameIdx'[handle[h].e] = frameIdx[handle[h].e] + 1
       /\ Stop(h) => ~handle'[h].id
       /\ ~handle[h].id /\ handle'[h].id =>
            \E e \in Engines, l \in Labels, v \in RatioInputs \cup {Zero} :
              Start(h, e, l, v)
       /\ handle[h].live /\ ~handle[h].id /\ handle'[h] = handle[h] =>
            \/ frameIdx' = frameIdx
            \/ \E e \in Engines, l \in Labels, v \in RatioInputs : Paint(e, l, v)
            \/ \E g \in Handles : SnapFrame(g)
            \/ \E g \in Handles \ {h} : handle[g].id /\ Tick(g)
            \/ \E g \in Handles \ {h} : handle'[g] # handle[g]
    ]_vars

\* a handle that was started at 0, stopped and then set to 3/2: the terminal
\* still shows the one frame start painted
C10Witness ==
  \E h \in Handles :
    /\ run[h].kind = "manual" /\ handle[h].live /\ ~handle[h].id
    /\ getPct(h) = Rat(3, 2)
    /\ frameIdx[handle[h].e] = 1
    /\ term.cur.kind = "frame" /\ term.cur.pct = Zero /\ term.cur.spinner = "|"

\* a tracked run with parseProgress alone / with both callbacks

\* the run is an estimated one
Estimated(h) == run[h].kind = "estimated"

\* elapsed <= adjustedMs = estimatedMs * (1 + estimateBuffer): the estimate
\* window of the run is open
WindowOpen(h) ==
  LET b == cfg[handle[h].e].estimateBuffer
  IN  /\ run[h].estimatedMs > 0
      /\ run[h].elapsed * b.d <= run[h].estimatedMs * (b.d + b.n)

\* C11 as stated: the ratio of an estimated run is always at least 0 and
\* strictly below 0.9.
C11Original ==
  \A h \in Handles :
    Estimated(h) => ~RatLess(getPct(h), Zero) /\ RatLess(getPct(h), Rat(9, 10))

\* C11 as amended: every easing sample stores 0.9 * (1 - e^(-2.5 * elapsed /
\* adjustedMs)) and never lowers the ratio; the ratio is at least 0 and at most
\* 0.9, strictly below 0.9 while elapsed <= adjustedMs, and exactly 0.9 after
\* every sample of a run with estimatedMs = 0.
C11Theorem ==
  /\ [](\A h \in Handles :
          Estimated(h) =>
            /\ ~RatLess(getPct(h), Zero)
            /\ ~RatLess(Rat(9, 10), getPct(h))
            /\ WindowOpen(h) => RatLess(getPct(h), Rat(9, 10))
            /\ run[h].estimatedMs = 0 /\ run[h].elapsed > 0 =>
                 getPct(h) = Rat(9, 10))
  /\ [][\A h \in Handles :
          Sample(h) =>
            /\ getPct(h)' = Ease(handle[h].e, run[h].estimatedMs, run'[h].elapsed)
            /\ ~RatLess(getPct(h)', getPct(h))
       ]_vars

\* two samples of a run with estimatedMs = 1000: the ratio after 400 ms
C11Witness ==
  \E h \in Handles :
    /\ Estimated(h) /\ run[h].pc = "running"
    /\ run[h].estimatedMs = 1000 /\ run[h].elapsed = 2 * SampleIntervalMs
    /\ getPct(h) = Rat(4761, 10000)

\* the completion of the run went through: 8 snap frames, the success line,
\* resolve()
Completed(h) ==
  /\ run[h].pc = "done" /\ run[h].promise = "resolved"
  /\ Count(h, "paint") = totalFrames
  /\ Count(h, "succeed") = 1
  /\ term.printed.glyph = "ok"

\* C12: a runEstimated with estimatedMs = 0 whose child closes with exit code 0,
\* before or after the first easing sample, never rejects and prints no failure
\* line; its close handler (whose doneLabel callback returned, if there is one)
\* paints the 8 snap frames, prints the success line and resolves.
C12Theorem ==
  /\ [](\A h \in Handles :
          Estimated(h) /\ run[h].estimatedMs = 0 /\ Closed(h) /\ run[h].code = 0 =>
            /\ run[h].promise # "rejected"
            /\ Count(h, "fail") = 0
            /\ run[h].pc \in {"snapping", "resuming", "done"}
                 \/ Logged(h, EvLine("doneLabel", "throw")))
  /\ \A h \in {1} :
       (/\ Estimated(h) /\ run[h].estimatedMs = 0
        /\ Closed(h) /\ run[h].code = 0
        /\ ~Logged(h, EvLine("doneLabel", "throw")))
         ~> Completed(h)

\* such a run that closed before the first easing sample, completed
C12Witness ==
  \E h \in Handles :
    /\ Estimated(h) /\ run[h].estimatedMs = 0 /\ run[h].code = 0
    /\ run[h].elapsed = 0 /\ getPct(h) = Zero
    /\ Completed(h)

\* C13 as stated: in every frame painted the percentage text is the nearest
\* integer to 100 * clamp(ratio, 0, 1): it is between 0 and 100.
C13Original ==
  term.cur # Blank =>
    /\ term.cur.pctStr = RoundTimes(100, Clamped(term.cur.pct))
    /\ 0 <= term.cur.pctStr /\ term.cur.pctStr <= 100

\* C14 as stated: a call of succeed, fail, info or warn prints one line of
\* glyph and label and leaves what was painted on the current line in place.
C14Original ==
  [][\A l \in Labels :
       Succeed(l) \/ Fail(l) \/ Info(l) \/ Warn(l) =>
         /\ term'.printed.label = l
         /\ term'.printed.glyph \in {"ok", "x", "o", "!"}
         /\ term'.printed.after = term.cur
    ]_vars

\* an operation of a caller, or an event, on engine e and its handle
OpOn(e) ==
  \/ \E l \in Labels : Start(e, e, l, Zero) \/ Paint(e, l, Half)
  \/ SetPct(e, Half) \/ Stop(e) \/ Tick(e) \/ SnapFrame(e) \/ Resume(e)
  \/ \E l \in Labels, n \in Totals : RunTracked(e, e, l, n, TRUE, FALSE)
  \/ TrackedData(e, <<"e">>, FALSE, [ret |-> "null"], [act |-> "increment"])
  \/ \E c \in ExitCodes :
       Close(e, c, [doneLabel |-> NoLabel, tolerateFailure |-> FALSE],
             "false", "computed")

\* C15: with two engines in use at the same time, an operation or event on one
\* engine leaves the other engine's frame index, options, handle (its ratio and
\* its timer), run and snap as they are; no step changes any engine's options.
C15Theorem ==
  [][/\ cfg' = cfg
     /\ \A e \in Engines :
          OpOn(e) =>
            \A o \in Engines \ {e} :
              /\ frameIdx'[o] = frameIdx[o]
              /\ handle'[o] = handle[o]
              /\ run'[o] = run[o]
              /\ snap'[o] = snap[o]
    ]_vars

\* engine 1 is in the snap of a run, engine 2 has painted a tick of a bar at
\* 1/2 in between: each index counts its own engine's paint calls
C15Witness ==
  /\ run[1].pc = "snapping" /\ snap[1].frame = 3 /\ frameIdx[1] = 4
  /\ handle[2].live /\ handle[2].id /\ getPct(2) = Half /\ frameIdx[2] = 2
  /\ term.cur # Blank /\ term.cur.e = 2 /\ term.cur.spinner = "/"
  /\ cfg[1] # cfg[2]

\* C16 as stated: the success line of a run carries doneLabel itself when it
\* is a string, what doneLabel() returned when it is a function, and the run's
\* label when doneLabel is absent; a doneLabel function is invoked once on the
\* success path and never on the failure path.
C16Original ==
  \A h \in Handles :
    IsRun(h) =>
      LET resolved == IF run[h].doneLabel = NoLabel THEN handle[h].label
                      ELSE IF run[h].doneLabel = Function THEN "computed"
                      ELSE run[h].doneLabel
      IN  /\ Count(h, "doneLabel") <= 1
          /\ run[h].pc = "failed" => Count(h, "doneLabel") = 0
          /\ run[h].pc \in {"snapping", "resuming", "done"}
               /\ run[h].doneLabel = Function => Count(h, "doneLabel") = 1
          /\ Count(h, "succeed") = 1 =>
               /\ Logged(h, EvLine("succeed", resolved))
               /\ term.printed = Line("ok", resolved, Blank)

\* C17: the close handling of a run first cancels the render timer of its
\* handle (and, in an estimated run, the sampling timer), before any completion
\* output; from then on no render tick and no easing sample of the run fires,
\* the ratio of the handle stays what it was at stop, which is the ratio the snap
\* starts from, and the frames painted are the snap's alone.
C17Theorem ==
  /\ [](\A h \in Handles :
          Closed(h) =>
            /\ ~handle[h].id /\ ~run[h].pctInterval
            /\ log[h][1] = IF Estimated(h) THEN Ev("clearInterval") ELSE Ev("stop")
            /\ Estimated(h) => log[h][2] = Ev("stop")
            /\ snap[h].promise # "none" => snap[h].currentPct = getPct(h))
  /\ [][\A h \in Handles :
          Closed(h) =>
            /\ ~Tick(h) /\ ~Sample(h)
            /\ getPct(h)' = getPct(h)
            /\ frameIdx' # frameIdx \/ term'.cur # term.cur => SnapFrame(h)
       ]_vars

\* an estimated run closed after two samples: the snap started from the ratio
\* of the second sample and is at its 3rd frame
C17Witness ==
  \E h \in Handles :
    /\ Estimated(h) /\ run[h].pc = "snapping" /\ run[h].elapsed = 2 * SampleIntervalMs
    /\ run[h].estimatedMs = 1000
    /\ snap[h].frame = 3 /\ snap[h].currentPct = Rat(4761, 10000)
    /\ term.cur # Blank /\ term.cur.pct = SnapValue(Rat(4761, 10000), 3)

\* C18: a run is completed once, and by its close event alone: while the child
\* runs nothing of the completion happens and the promise is pending, whatever
\* chunks, render ticks and easing samples come; the close handling calls stop()
\* once; the promise is settled at most once, by the close handling, and once
\* settled it stays as it is.
C18Theorem ==
  /\ [](\A h \in Handles :
          IsRun(h) =>
            /\ run[h].pc = "running" =>
                 /\ log[h] = <<>> /\ run[h].promise = "pending"
                 /\ snap[h] = NoSnap /\ handle[h].id
            /\ Closed(h) => Count(h, "stop") = 1
            /\ Count(h, "resolve") + Count(h, "reject") <= 1
            /\ run[h].promise = "resolved" <=> Count(h, "resolve") = 1
            /\ run[h].promise = "rejected" <=> Count(h, "reject") = 1)
  /\ [][\A h \in Handles :
          IsRun(h) =>
            /\ run[h].promise # "pending" => run'[h].promise = run[h].promise
            /\ run'[h].promise # run[h].promise =>
                 \/ run[h].pc = "running" /\ run'[h].pc = "failed"
                 \/ run[h].pc = "resuming" /\ run'[h].pc = "done"
            /\ Closed(h) => Count(h, "stop")' = Count(h, "stop")
       ]_vars

\* a tracked run that handled a chunk and painted a render tick, closed with 0
\* and resolved: one stop, one resolve
C18Witness ==
  \E h \in Handles :
    /\ run[h].kind = "tracked" /\ calls[h] # <<>> /\ run[h].completed = 1
    /\ run[h].pc = "done" /\ run[h].promise = "resolved"
    /\ Count(h, "stop") = 1 /\ Count(h, "resolve") = 1 /\ Count(h, "reject") = 0
    /\ frameIdx[handle[h].e] = totalFrames + 2

\* C19: while an estimated run's child runs, its ratio changes only in an easing
\* sample (to the eased value of the new elapsed time), and a step that changes
\* the accumulated stderr text appends to it and changes nothing else: not the
\* ratio, the terminal, the frame counters, nor any other run.
C19Theorem ==
  [][\A h \in Handles :
       Estimated(h) /\ run[h].pc = "running" =>
         /\ getPct(h)' # getPct(h) =>
              /\ run'[h].elapsed = run[h].elapsed + SampleIntervalMs
              /\ getPct(h)' = Clamped(Ease(handle[h].e, run[h].estimatedMs,
                                            run'[h].elapsed))
              /\ run'[h].stderr = run[h].stderr
         /\ run'[h].stderr # run[h].stderr =>
              /\ \E t \in StderrTexts : run'[h].stderr = run[h].stderr \o t
              /\ run' = [run EXCEPT ![h].stderr = run'[h].stderr]
              /\ UNCHANGED <<cfg, frameIdx, term, handle, snap, calls, log>>
    ]_vars

\* a running estimated run that has taken a sample and then a stderr chunk
C19Witness ==
  \E h \in Handles :
    /\ Estimated(h) /\ run[h].pc = "running"
    /\ run[h].stderr # <<>> /\ run[h].elapsed = SampleIntervalMs
    /\ run[h].estimatedMs > 0 /\ RatLess(Zero, getPct(h))

\* C20: every run whose child has closed eventually has its promise settled,
\* resolved or rejected, whatever the tolerateFailure and doneLabel callbacks do.
C20Original ==
  \A h \in {1} :
    (IsRun(h) /\ Closed(h)) ~> (run[h].promise \in {"resolved", "rejected"})

====
